---- MODULE Spec2Model ----
(***************************************************************************)
(* Model of ai/agent.py: the structured query model, its rendering to SQL  *)
(* text and the bounded retry loop of get_answer_using_sql.                *)
(*                                                                         *)
(* Text is a sequence of atoms (strings); a text denotes the concatenation *)
(* of its atoms.  Identifiers whose letter case matters and string literal *)
(* values are spelled one character per atom.  An optional value is <<>>   *)
(* (Python None) or <<v>>.                                                 *)
(***************************************************************************)
EXTENDS Integers, Sequences, FiniteSets, TLC

VARIABLES pc, team_id, result, previous_query, num_tries, error_message,
          prompt, sql_query, query, retval, history,
          oracle_calls, run_query_calls, open_connections, calls,
          csv_files, file_no, success_count, loader_pc, problematic_columns,
          depth, df_columns, known_problematic_columns, returns

vars == <<pc, team_id, result, previous_query, num_tries, error_message,
          prompt, sql_query, query, retval, history,
          oracle_calls, run_query_calls, open_connections, calls,
          csv_files, file_no, success_count, loader_pc, problematic_columns,
          depth, df_columns, known_problematic_columns, returns>>

counters == <<oracle_calls, run_query_calls, open_connections>>

loader == <<csv_files, file_no, success_count, loader_pc, problematic_columns,
            depth, df_columns, known_problematic_columns, returns>>

None == <<>>

Some(v) == <<v>>

(***************************************************************************)
(* Text helpers: str.join and substring search.                            *)
(***************************************************************************)
RECURSIVE Join(_, _)
Join(sep, parts) ==
    IF parts = <<>> THEN <<>>
    ELSE IF Len(parts) = 1 THEN parts[1]
    ELSE parts[1] \o sep \o Join(sep, Tail(parts))

Contains(text, sub) ==
    \E i \in 0..(Len(text) - Len(sub)) :
        \A j \in 1..Len(sub) : text[i + j] = sub[j]

EndsWith(text, sub) ==
    /\ Len(text) >= Len(sub)
    /\ \A j \in 1..Len(sub) : text[Len(text) - Len(sub) + j] = sub[j]

(***************************************************************************)
(* str.lower over the letters that occur in the modelled identifiers.      *)
(***************************************************************************)
LowerAtom(a) ==
    CASE a = "N" -> "n"
      [] a = "A" -> "a"
      [] a = "M" -> "m"
      [] a = "E" -> "e"
      [] OTHER -> a

Lower(text) == [i \in 1..Len(text) |-> LowerAtom(text[i])]

name == <<"n", "a", "m", "e">>

(***************************************************************************)
(* Condition values: Union[str, int, DynamicValue].                        *)
(***************************************************************************)
StrValue(chars) == [tag |-> "str", text |-> chars, num |-> 0]

IntValue(n) == [tag |-> "int", text |-> <<>>, num |-> n]

DynamicValue(column_name) == [tag |-> "dyn", text |-> column_name, num |-> 0]

Condition(column, operator, value) ==
    [column |-> column, operator |-> operator, value |-> value]

OrderByColumn(column_name, sort_order) ==
    [column_name |-> column_name, sort_order |-> sort_order]

SqlQuery(table_name, columns, conditions, order_by_columns, group_by_columns) ==
    [table_name |-> table_name, columns |-> columns, conditions |-> conditions,
     order_by_columns |-> order_by_columns, group_by_columns |-> group_by_columns]

(***************************************************************************)
(* str(int): the decimal text of an integer.                               *)
(***************************************************************************)
Digit(d) ==
    CASE d = 0 -> "0" [] d = 1 -> "1" [] d = 2 -> "2" [] d = 3 -> "3"
      [] d = 4 -> "4" [] d = 5 -> "5" [] d = 6 -> "6" [] d = 7 -> "7"
      [] d = 8 -> "8" [] d = 9 -> "9"

RECURSIVE NatText(_)
NatText(n) ==
    IF n < 10 THEN <<Digit(n)>> ELSE NatText(n \div 10) \o <<Digit(n % 10)>>

DecimalText(n) == IF n < 0 THEN <<"-">> \o NatText(0 - n) ELSE NatText(n)

(***************************************************************************)
(* format_condition, format_order_by_column and the query assembly of      *)
(* get_answer_using_sql.                                                   *)
(***************************************************************************)
format_conditionQuotesAll(condition) ==
    LET column == IF Lower(condition.column) = name
                  THEN <<"\"">> \o condition.column \o <<"\"">>
                  ELSE condition.column
        value  == IF condition.value.tag = "int"
                  THEN DecimalText(condition.value.num)
                  ELSE <<"'">> \o condition.value.text \o <<"'">>
    IN  column \o <<" ", condition.operator, " ">> \o value

format_condition(condition) ==
    LET column == IF Lower(condition.column) = name
                  THEN <<"\"">> \o condition.column \o <<"\"">>
                  ELSE condition.column
        value  == IF condition.value.tag = "dyn" THEN condition.value.text
                  ELSE IF condition.value.tag = "str"
                       THEN <<"'">> \o condition.value.text \o <<"'">>
                       ELSE DecimalText(condition.value.num)
    IN  column \o <<" ", condition.operator, " ">> \o value

format_order_by_column(order_by) ==
    LET column == IF Lower(order_by.column_name) = name
                  THEN <<"\"">> \o order_by.column_name \o <<"\"">>
                  ELSE order_by.column_name
    IN  column \o <<" ", order_by.sort_order>>

query_limit == 10

columns_clause(q) ==
    LET formatted_columns ==
            [i \in 1..Len(q.columns) |->
                IF q.columns[i] = name THEN <<"\"", "n", "a", "m", "e", "\"">>
                ELSE q.columns[i]]
    IN  IF formatted_columns # <<>> THEN Join(<<", ">>, formatted_columns)
        ELSE <<"*">>

where_clause(q, team) ==
    IF q.conditions # <<>>
    THEN <<" WHERE ">> \o
         Join(<<" AND ">>,
              [i \in 1..Len(q.conditions) |-> format_condition(q.conditions[i])])
    ELSE <<>>

group_by_clause(q) ==
    IF q.group_by_columns # <<>>
    THEN <<" GROUP BY ">> \o
         Join(<<", ">>,
              [i \in 1..Len(q.group_by_columns) |->
                  IF Lower(q.group_by_columns[i]) = name
                  THEN <<"\"">> \o q.group_by_columns[i] \o <<"\"">>
                  ELSE q.group_by_columns[i]])
    ELSE <<>>

order_by_clause(q) ==
    IF q.order_by_columns # <<>>
    THEN <<" ORDER BY ">> \o
         Join(<<", ">>,
              [i \in 1..Len(q.order_by_columns) |->
                  format_order_by_column(q.order_by_columns[i])])
    ELSE <<>>

BuildQueryOrderFirst(q, team) ==
    <<"SELECT ">> \o columns_clause(q) \o <<" FROM ", q.table_name>>
        \o where_clause(q, team)
        \o order_by_clause(q)
        \o group_by_clause(q)
        \o <<" LIMIT ">> \o DecimalText(query_limit)

BuildQueryLimitBeforeOrder(q, team) ==
    <<"SELECT ">> \o columns_clause(q) \o <<" FROM ", q.table_name>>
        \o where_clause(q, team)
        \o group_by_clause(q)
        \o <<" LIMIT ">> \o DecimalText(query_limit)
        \o order_by_clause(q)

BuildQuery(q, team) ==
    <<"SELECT ">> \o columns_clause(q) \o <<" FROM ", q.table_name>>
        \o where_clause(q, team)
        \o group_by_clause(q)
        \o order_by_clause(q)
        \o <<" LIMIT ">> \o DecimalText(query_limit)

(***************************************************************************)
(* semantic_model: the tables and the column names of each.                *)
(***************************************************************************)
Tables == {"shipments", "orders", "financial_snapshots"}

semantic_model ==
    [t \in Tables |->
        IF t = "shipments" THEN {
        <<"shipment_id">>, <<"status">>, <<"departure_date">>,
        <<"arrival_date">>, <<"cleared_customs">>, <<"pol">>, <<"pod">>,
        <<"entry_number">>, <<"client_id">>, <<"account_manager">>,
        <<"container_number">>, <<"cargo_type">>, <<"quoted_rate">>,
        <<"date_added">>, <<"last_updated">>, <<"supplier">>}
        ELSE IF t = "orders" THEN {
        <<"id">>, <<"transaction_type">>, <<"po_number">>, <<"client_id">>,
        <<"customer_id">>, <<"so_number">>, <<"approval_status">>,
        <<"so_status">>, <<"delivery_date">>, <<"special_instructions">>,
        <<"posted_date">>, <<"updated_at">>, <<"delivery_start_datetime">>,
        <<"delivery_end_datetime">>, <<"freight">>, <<"carrier">>,
        <<"delivery_cost">>, <<"fuel_surcharge">>, <<"fb_status">>,
        <<"sync_to_warehouse">>, <<"credit_review_status">>,
        <<"credit_review_score">>, <<"order_group_id">>, <<"order_sequence">>}
        ELSE {
        <<"id">>, <<"client_id">>, <<"accounts_receivable">>,
        <<"accounts_payable">>, <<"cash_balance">>,
        <<"net_inventory_value">>, <<"total_net_assets">>,
        <<"last_month_sales">>, <<"last_month_deposits">>,
        <<"available_inventory_qty">>, <<"inventory_on_water">>,
        <<"last_updated">>, <<"last_deposit_date">>, <<"credit_risk">>,
        <<"credit_risk_last_change">>, <<"cash_balance_notification">>,
        <<"credit_risk_notification">>, <<"status_id">>, <<"client_type">>,
        <<"relation_manager_id">>}]

(***************************************************************************)
(* The environment: what the oracle (sql_agent.run) and the database can   *)
(* answer.  QueryModels are the SqlQuery instances the oracle may return;  *)
(* BadContent is a response whose content is not a SqlQuery.               *)
(***************************************************************************)
QEmpty == SqlQuery("shipments", <<>>, <<>>, <<>>, <<>>)

QStatus ==
    SqlQuery("shipments", << <<"status">> >>,
             << Condition(<<"status">>, "=", IntValue(3)) >>, <<>>, <<>>)

QName ==
    SqlQuery("orders", << name, <<"N", "a", "m", "e">> >>,
             << Condition(<<"N", "A", "M", "E">>, "!=", StrValue(<<"L", "A", "X">>)) >>,
             << OrderByColumn(<<"N", "a", "m", "e">>, "DESC") >>,
             << name >>)

QDates ==
    SqlQuery("shipments", << <<"pol">>, <<"pod">> >>,
             << Condition(<<"departure_date">>, ">=", DynamicValue(<<"date_added">>)),
                Condition(<<"pol">>, "=", StrValue(<<"O", "'", "H">>)) >>,
             << OrderByColumn(<<"departure_date">>, "ASC") >>,
             <<>>)

QLax ==
    SqlQuery("shipments", << <<"pol">>, <<"status">> >>,
             << Condition(<<"pol">>, "=", StrValue(<<"L", "A", "X">>)),
                Condition(<<"client_id">>, ">", IntValue(120)) >>,
             << OrderByColumn(<<"status">>, "DESC") >>,
             << <<"pol">>, <<"status">> >>)

QBlank == SqlQuery("shipments", << <<>> >>, <<>>, <<>>, <<>>)

QueryModels == {QEmpty, QStatus, QName, QDates, QLax, QBlank}

BadContent == [raw |-> <<"I cannot answer that.">>]

IsSqlQuery(content) == "columns" \in DOMAIN content

OracleErrors == {<<"1 validation error for SqlQuery">>, <<"Request timed out.">>}

EngineErrors == {<<"syntax error at or near">>, <<"column does not exist">>}

RowTexts == {<<"[]">>, <<"[(7,)]">>}

Exception(type, text) == [type |-> type, text |-> text]

AgentErrors == {Exception("ValueError", <<"invalid session id">>),
                Exception("Exception", <<"storage unavailable">>)}

ConnectErrors == {<<"could not parse database url">>}

DbOutcomes ==
    [kind : {"rows"}, text : RowTexts] \cup [kind : {"error"}, text : EngineErrors]
        \cup [kind : {"unreachable"}, text : ConnectErrors]

TeamIds == {None, Some(<<"4", "2">>)}

question == <<"How many shipments are late?">>

expected_answer == <<"A count of late shipments">>

(***************************************************************************)
(* run_query: create_engine may raise before the try block; inside it the  *)
(* rows or the engine's error are both turned into a returned string.      *)
(* with_connection is the with block: the connection it acquires is        *)
(* released by the context manager when the block is left, normally (rows) *)
(* or by an exception; held is what run_query still holds on return.       *)
(***************************************************************************)
with_connectionLeaksOnError(db) ==
    LET acquired == 1
        released == IF db.kind = "rows" THEN 1 ELSE 0
    IN  acquired - released

with_connection(db) ==
    LET acquired == 1
        released == acquired
    IN  acquired - released

run_query(q, db) ==
    IF db.kind = "unreachable"
    THEN [raised |-> TRUE, value |-> db.text, held |-> 0]
    ELSE IF db.kind = "rows"
    THEN [raised |-> FALSE,
          value |-> <<"Result: ">> \o db.text \o <<" obtained from the query: ">> \o q,
          held |-> with_connection(db)]
    ELSE [raised |-> FALSE,
          value |-> <<"Error: ">> \o db.text \o <<" occurred while running the query: ">> \o q,
          held |-> with_connection(db)]

(***************************************************************************)
(* get_answer_using_sql.                                                   *)
(***************************************************************************)
max_tries == 3

ExhaustedMessage == <<"I couldn't find the answer to your question, please try again.">>

GenericError == <<"Error executing query. Please try again later.">>

BuildPrompt(pq, em) ==
    [question |-> question,
     expected_answer |-> expected_answer,
     feedback |-> IF em # None /\ pq # None
                  THEN Some([previous_query |-> pq[1], error_message |-> em[1]])
                  ELSE None]

LoopCondIgnoresResult == num_tries < max_tries

LoopCondOffByOne == result = None /\ num_tries <= max_tries

LoopCond == result = None /\ num_tries < max_tries

OuterHandlerValueErrorOnly(e) ==
    IF e.type = "ValueError"
    THEN [pc |-> "returned", retval |-> Some(<<"Validation error: ">> \o e.text)]
    ELSE [pc |-> "raised", retval |-> None]

OuterHandler(e) ==
    IF e.type = "ValueError"
    THEN [pc |-> "returned", retval |-> Some(<<"Validation error: ">> \o e.text)]
    ELSE [pc |-> "returned", retval |-> Some(GenericError)]

ReturnValue == result

NewAttempt(p) ==
    [prompt |-> p, oracle |-> "pending", content |-> None, oracle_error |-> None,
     query |-> None, exec |-> "none", db_error |-> None]

Last == Len(history)

(***************************************************************************)
(* Two invocations of get_answer_using_sql running in parallel.  calls[i]  *)
(* holds the locals of invocation i and the responses it was given; the    *)
(* closure variable team_id and semantic_model are shared and only read.   *)
(***************************************************************************)
Invocations == {1, 2}

Locals ==
    [pc |-> "start", agent_error |-> None, result |-> None, previous_query |-> None,
     num_tries |-> 0, error_message |-> None, sql_query |-> None, query |-> None,
     retval |-> None, log |-> <<>>]

Init ==
    /\ pc = "start"
    /\ team_id \in TeamIds
    /\ result = None
    /\ previous_query = None
    /\ num_tries = 0
    /\ error_message = None
    /\ prompt = None
    /\ sql_query = None
    /\ query = None
    /\ retval = None
    /\ history = <<>>
    /\ oracle_calls = 0
    /\ run_query_calls = 0
    /\ open_connections = 0
    /\ calls = [i \in Invocations |-> Locals]
    /\ csv_files = <<>>
    /\ file_no = 0
    /\ success_count = 0
    /\ loader_pc = "idle"
    /\ problematic_columns = None
    /\ depth = 0
    /\ df_columns = <<>>
    /\ known_problematic_columns = <<>>
    /\ returns = <<>>

GetSqlAgent ==
    /\ pc = "start"
    /\ pc' = "while"
    /\ result' = None
    /\ previous_query' = None
    /\ num_tries' = 0
    /\ error_message' = None
    /\ UNCHANGED <<loader, calls, counters, team_id, prompt, sql_query, query, retval, history>>

GetSqlAgentRaises ==
    /\ pc = "start"
    /\ \E e \in AgentErrors :
        /\ pc' = OuterHandler(e).pc
        /\ retval' = OuterHandler(e).retval
    /\ UNCHANGED <<loader, calls, counters,
                   team_id, result, previous_query, num_tries, error_message,
                   prompt, sql_query, query, history>>

LoopEnterEarly ==
    /\ pc \in {"while", "exec"}
    /\ LoopCond
    /\ num_tries' = num_tries + 1
    /\ prompt' = Some(BuildPrompt(previous_query, error_message))
    /\ history' = Append(history, NewAttempt(BuildPrompt(previous_query, error_message)))
    /\ pc' = "oracle"
    /\ UNCHANGED <<loader, calls, counters,
                   team_id, result, previous_query, error_message, sql_query,
                   query, retval>>

LoopEnter ==
    /\ pc = "while"
    /\ LoopCond
    /\ num_tries' = num_tries + 1
    /\ prompt' = Some(BuildPrompt(previous_query, error_message))
    /\ history' = Append(history, NewAttempt(BuildPrompt(previous_query, error_message)))
    /\ pc' = "oracle"
    /\ UNCHANGED <<loader, calls, counters,
                   team_id, result, previous_query, error_message, sql_query,
                   query, retval>>

LoopExit ==
    /\ pc = "while"
    /\ ~LoopCond
    /\ error_message' = IF result = None THEN Some(ExhaustedMessage) ELSE error_message
    /\ retval' = ReturnValue
    /\ pc' = "returned"
    /\ UNCHANGED <<loader, calls, counters,
                   team_id, result, previous_query, num_tries, prompt, sql_query,
                   query, history>>

OracleReturns ==
    /\ pc = "oracle"
    /\ \E content \in QueryModels \cup {BadContent} :
        /\ sql_query' = Some(content)
        /\ previous_query' = Some(content)
        /\ history' = [history EXCEPT ![Last].oracle = "ok",
                                      ![Last].content = Some(content)]
    /\ pc' = "compile"
    /\ oracle_calls' = oracle_calls + 1
    /\ UNCHANGED <<loader, calls, run_query_calls, open_connections, team_id, result,
                   num_tries, error_message, prompt, query, retval>>

OracleRaisesNoRecord ==
    /\ pc = "oracle"
    /\ \E e \in OracleErrors :
        /\ error_message' = error_message
        /\ history' = [history EXCEPT ![Last].oracle = "raised",
                                      ![Last].oracle_error = Some(e)]
    /\ pc' = "while"
    /\ oracle_calls' = oracle_calls + 1
    /\ UNCHANGED <<loader, calls, run_query_calls, open_connections, team_id, result,
                   previous_query, num_tries, prompt, sql_query, query, retval>>

OracleRaises ==
    /\ pc = "oracle"
    /\ \E e \in OracleErrors :
        /\ error_message' = Some(e)
        /\ history' = [history EXCEPT ![Last].oracle = "raised",
                                      ![Last].oracle_error = Some(e)]
    /\ pc' = "while"
    /\ oracle_calls' = oracle_calls + 1
    /\ UNCHANGED <<loader, calls, run_query_calls, open_connections, team_id, result,
                   previous_query, num_tries, prompt, sql_query, query, retval>>

Compile ==
    /\ pc = "compile"
    /\ IsSqlQuery(sql_query[1])
    /\ query' = Some(BuildQuery(sql_query[1], team_id))
    /\ history' = [history EXCEPT ![Last].query = Some(BuildQuery(sql_query[1], team_id))]
    /\ pc' = "exec"
    /\ UNCHANGED <<loader, calls, counters,
                   team_id, result, previous_query, num_tries, error_message,
                   prompt, sql_query, retval>>

CompileRaises ==
    /\ pc = "compile"
    /\ ~IsSqlQuery(sql_query[1])
    /\ LET e == Exception("AttributeError", <<"object has no attribute 'columns'">>)
       IN  /\ pc' = OuterHandler(e).pc
           /\ retval' = OuterHandler(e).retval
    /\ UNCHANGED <<loader, calls, counters,
                   team_id, result, previous_query, num_tries, error_message,
                   prompt, sql_query, query, history>>

ExecuteFatal ==
    /\ pc = "exec"
    /\ \E db \in DbOutcomes :
        LET r == run_query(query[1], db)
        IN  /\ open_connections' = open_connections + r.held
            /\ IF r.raised
               THEN /\ error_message' = error_message
                    /\ result' = result
                    /\ retval' = Some(GenericError)
                    /\ pc' = "returned"
                    /\ history' = [history EXCEPT ![Last].exec = "raised",
                                                  ![Last].db_error = Some(db.text)]
               ELSE /\ result' = Some(r.value)
                    /\ error_message' = error_message
                    /\ retval' = retval
                    /\ pc' = "while"
                    /\ history' = [history EXCEPT ![Last].exec = db.kind,
                                                  ![Last].db_error =
                                                      IF db.kind = "error" THEN Some(db.text)
                                                      ELSE None]
    /\ run_query_calls' = run_query_calls + 1
    /\ UNCHANGED <<loader, calls, oracle_calls, team_id, previous_query, num_tries, prompt,
                   sql_query, query>>

Execute ==
    /\ pc = "exec"
    /\ \E db \in DbOutcomes :
        LET r == run_query(query[1], db)
        IN  /\ open_connections' = open_connections + r.held
            /\ IF r.raised
               THEN /\ error_message' = None
                    /\ result' = result
                    /\ history' = [history EXCEPT ![Last].exec = "raised",
                                                  ![Last].db_error = Some(db.text)]
               ELSE /\ result' = Some(r.value)
                    /\ error_message' = error_message
                    /\ history' = [history EXCEPT ![Last].exec = db.kind,
                                                  ![Last].db_error =
                                                      IF db.kind = "error" THEN Some(db.text)
                                                      ELSE None]
    /\ pc' = "while"
    /\ run_query_calls' = run_query_calls + 1
    /\ UNCHANGED <<loader, calls, oracle_calls, team_id, previous_query, num_tries, prompt,
                   sql_query, query, retval>>

Next ==
    \/ GetSqlAgent
    \/ GetSqlAgentRaises
    \/ LoopEnter
    \/ LoopExit
    \/ OracleReturns
    \/ OracleRaises
    \/ Compile
    \/ CompileRaises
    \/ Execute

Spec == Init /\ [][Next]_vars

FairSpec == Spec /\ WF_vars(Next)

(***************************************************************************)
(* The steps of invocation i of two parallel invocations.  Each is the     *)
(* step of the same name above, on the locals calls[i]; the environment    *)
(* answers from ParContents, ParOracleErrors and ParDbOutcomes.            *)
(***************************************************************************)
ParContents == {QStatus, BadContent}

ParOracleErrors == {<<"Request timed out.">>}

ParDbOutcomes ==
    {[kind |-> "rows", text |-> <<"[(7,)]">>],
     [kind |-> "error", text |-> <<"column does not exist">>],
     [kind |-> "unreachable", text |-> <<"could not parse database url">>]}

ParAttempt(p) ==
    [prompt |-> p, oracle |-> "pending", content |-> None, oracle_error |-> None,
     db |-> None]

singles == <<pc, team_id, result, previous_query, num_tries, error_message,
             prompt, sql_query, query, retval, history, counters, loader>>

ParGetSqlAgent(i) ==
    /\ calls[i].pc = "start"
    /\ calls' = [calls EXCEPT ![i].pc = "while",
                              ![i].result = None,
                              ![i].previous_query = None,
                              ![i].num_tries = 0,
                              ![i].error_message = None]
    /\ UNCHANGED singles

ParGetSqlAgentRaises(i) ==
    /\ calls[i].pc = "start"
    /\ \E e \in AgentErrors :
        calls' = [calls EXCEPT ![i].pc = OuterHandler(e).pc,
                               ![i].retval = OuterHandler(e).retval,
                               ![i].agent_error = Some(e)]
    /\ UNCHANGED singles

ParLoopEnterSharedCounter(i) ==
    /\ calls[i].pc = "while"
    /\ calls[i].result = None /\ calls[i].num_tries < max_tries
    /\ LET p == BuildPrompt(calls[i].previous_query, calls[i].error_message)
       IN  calls' = [j \in Invocations |->
                        IF j = i
                        THEN [calls[j] EXCEPT !.num_tries = @ + 1,
                                              !.log = Append(@, ParAttempt(p)),
                                              !.pc = "oracle"]
                        ELSE [calls[j] EXCEPT !.num_tries = @ + 1]]
    /\ UNCHANGED singles

ParLoopEnter(i) ==
    /\ calls[i].pc = "while"
    /\ calls[i].result = None /\ calls[i].num_tries < max_tries
    /\ LET p == BuildPrompt(calls[i].previous_query, calls[i].error_message)
       IN  calls' = [calls EXCEPT ![i].num_tries = @ + 1,
                                  ![i].log = Append(@, ParAttempt(p)),
                                  ![i].pc = "oracle"]
    /\ UNCHANGED singles

ParLoopExit(i) ==
    /\ calls[i].pc = "while"
    /\ ~(calls[i].result = None /\ calls[i].num_tries < max_tries)
    /\ calls' = [calls EXCEPT ![i].error_message =
                                  IF calls[i].result = None THEN Some(ExhaustedMessage)
                                  ELSE @,
                              ![i].retval = calls[i].result,
                              ![i].pc = "returned"]
    /\ UNCHANGED singles

ParOracleReturns(i) ==
    /\ calls[i].pc = "oracle"
    /\ \E content \in ParContents :
        calls' = [calls EXCEPT ![i].sql_query = Some(content),
                               ![i].previous_query = Some(content),
                               ![i].log[Len(calls[i].log)].oracle = "ok",
                               ![i].log[Len(calls[i].log)].content = Some(content),
                               ![i].pc = "compile"]
    /\ UNCHANGED singles

ParOracleRaises(i) ==
    /\ calls[i].pc = "oracle"
    /\ \E e \in ParOracleErrors :
        calls' = [calls EXCEPT ![i].error_message = Some(e),
                               ![i].log[Len(calls[i].log)].oracle = "raised",
                               ![i].log[Len(calls[i].log)].oracle_error = Some(e),
                               ![i].pc = "while"]
    /\ UNCHANGED singles

ParCompile(i) ==
    /\ calls[i].pc = "compile"
    /\ IsSqlQuery(calls[i].sql_query[1])
    /\ calls' = [calls EXCEPT ![i].query = Some(BuildQuery(calls[i].sql_query[1], team_id)),
                              ![i].pc = "exec"]
    /\ UNCHANGED singles

ParCompileRaises(i) ==
    /\ calls[i].pc = "compile"
    /\ ~IsSqlQuery(calls[i].sql_query[1])
    /\ LET e == Exception("AttributeError", <<"object has no attribute 'columns'">>)
       IN  calls' = [calls EXCEPT ![i].pc = OuterHandler(e).pc,
                                  ![i].retval = OuterHandler(e).retval]
    /\ UNCHANGED singles

ParExecute(i) ==
    /\ calls[i].pc = "exec"
    /\ \E db \in ParDbOutcomes :
        LET r == run_query(calls[i].query[1], db)
        IN  calls' = [calls EXCEPT ![i].error_message = IF r.raised THEN None ELSE @,
                                   ![i].result = IF r.raised THEN @ ELSE Some(r.value),
                                   ![i].log[Len(calls[i].log)].db = Some(db),
                                   ![i].pc = "while"]
    /\ UNCHANGED singles

ParNext ==
    \E i \in Invocations :
        \/ ParGetSqlAgent(i)
        \/ ParGetSqlAgentRaises(i)
        \/ ParLoopEnter(i)
        \/ ParLoopExit(i)
        \/ ParOracleReturns(i)
        \/ ParOracleRaises(i)
        \/ ParCompile(i)
        \/ ParCompileRaises(i)
        \/ ParExecute(i)

ParSpec == Init /\ [][ParNext]_vars

(***************************************************************************)
(* load_db.  CsvObjects are the .csv objects the bucket may hold, in the   *)
(* order S3 lists them; Header is the header line of each, one text per    *)
(* column.  The database fails an insert with an error that names a column *)
(* of the INSERT statement, or with an error that names none.              *)
(***************************************************************************)
CsvObjects ==
    << [key |-> "archive/orders.csv", filename |-> "orders.csv"],
       [key |-> "csv-files/orders.csv", filename |-> "orders.csv"],
       [key |-> "csv-files/shipments.csv", filename |-> "shipments.csv"] >>

Header(key) ==
    IF key = "csv-files/shipments.csv"
    THEN << <<"E", "A", "N">>, <<"N", "e", "t", " ", "A", "m", "t">> >>
    ELSE << <<"id">>, <<"transaction_type">>, <<"N", "a", "m", "e">> >>

get_csv_files_from_s3 ==
    LET Chosen == {s \in UNION {[1..n -> 1..Len(CsvObjects)] : n \in 0..Len(CsvObjects)} :
                      \A i \in 1..(Len(s) - 1) : s[i] < s[i + 1]}
    IN  {[i \in 1..Len(s) |-> CsvObjects[s[i]]] : s \in Chosen}

clean_column(col) ==
    [i \in 1..Len(col) |-> IF LowerAtom(col[i]) = " " THEN "_" ELSE LowerAtom(col[i])]

DatatypeMismatch(col) ==
    <<"(psycopg2.errors.DatatypeMismatch) ", "column \"">> \o col
        \o <<"\" is of type", " integer but expression is of type character varying">>

UndefinedColumn(col) ==
    <<"(psycopg2.errors.UndefinedColumn) ", "column \"">> \o col
        \o <<"\" of relation does not exist">>

ReadErrors == {<<"An error occurred (NoSuchKey) when calling the GetObject operation">>,
               <<"No columns to parse from file">>}

InsertErrors(columns) ==
    {DatatypeMismatch(columns[i]) : i \in 1..Len(columns)}
        \cup {UndefinedColumn(columns[i]) : i \in 1..Len(columns)}
        \cup {<<"(psycopg2.OperationalError) server closed the connection">>}

(***************************************************************************)
(* The except block of import_csv_to_db: the substring tests and str.find  *)
(* on the text of the exception.  find is the position of the first atom   *)
(* equal to the marker, 0 when there is none; start_idx is the position    *)
(* after the marker.                                                       *)
(***************************************************************************)
find(text, marker) ==
    IF \E i \in 1..Len(text) : text[i] = marker
    THEN CHOOSE i \in 1..Len(text) :
             text[i] = marker /\ \A j \in 1..(i - 1) : text[j] # marker
    ELSE 0

Mentions(text, atoms) == \E i \in 1..Len(text) : text[i] \in atoms

problem_column(e) ==
    LET start_idx == find(e, "column \"") + 1
        end_idx   == find(e, "\" is of type")
    IN  IF /\ Mentions(e, {"column \""})
           /\ Mentions(e, {"\" is of type"})
           /\ start_idx > 1
           /\ end_idx > start_idx
        THEN Some(SubSeq(e, start_idx, end_idx - 1))
        ELSE None

Truthy(list) == list # None /\ list[1] # <<>>

cols_to_drop(columns, list) ==
    IF Truthy(list)
    THEN {clean_column(list[1][i]) : i \in 1..Len(list[1])}
             \cap {columns[i] : i \in 1..Len(columns)}
    ELSE {}

dataframe(key, list) ==
    LET columns == [i \in 1..Len(Header(key)) |-> clean_column(Header(key)[i])]
    IN  SelectSeq(columns, LAMBDA c : c \notin cols_to_drop(columns, list))

file_info == csv_files[file_no]

LoadInit ==
    /\ pc = "start"
    /\ team_id = None
    /\ result = None
    /\ previous_query = None
    /\ num_tries = 0
    /\ error_message = None
    /\ prompt = None
    /\ sql_query = None
    /\ query = None
    /\ retval = None
    /\ history = <<>>
    /\ oracle_calls = 0
    /\ run_query_calls = 0
    /\ open_connections = 0
    /\ calls = [i \in Invocations |-> Locals]
    /\ csv_files \in get_csv_files_from_s3
    /\ file_no = 0
    /\ success_count = 0
    /\ loader_pc = "for"
    /\ problematic_columns = None
    /\ depth = 0
    /\ df_columns = <<>>
    /\ known_problematic_columns = [f \in {"orders.csv"} |-> << <<"transaction_type">> >>]
    /\ returns = <<>>

agent == <<pc, team_id, result, previous_query, num_tries, error_message,
           prompt, sql_query, query, retval, history, counters, calls>>

MainNextFile ==
    /\ loader_pc = "for"
    /\ file_no < Len(csv_files)
    /\ file_no' = file_no + 1
    /\ problematic_columns' =
           IF csv_files[file_no + 1].filename \in DOMAIN known_problematic_columns
           THEN Some(known_problematic_columns[csv_files[file_no + 1].filename])
           ELSE None
    /\ depth' = 0
    /\ loader_pc' = "infer"
    /\ UNCHANGED <<agent, csv_files, success_count, df_columns,
                   known_problematic_columns, returns>>

MainSummary ==
    /\ loader_pc = "for"
    /\ file_no = Len(csv_files)
    /\ loader_pc' = "done"
    /\ UNCHANGED <<agent, csv_files, file_no, success_count, problematic_columns,
                   depth, df_columns, known_problematic_columns, returns>>

InferTableStructure ==
    /\ loader_pc = "infer"
    /\ loader_pc' = "read"
    /\ UNCHANGED <<agent, csv_files, file_no, success_count, problematic_columns,
                   depth, df_columns, known_problematic_columns, returns>>

InferTableStructureRaises ==
    /\ loader_pc = "infer"
    /\ \E e \in ReadErrors \cup InsertErrors(<<>>) :
        returns' = Append(returns, "raised")
    /\ loader_pc' = "raised"
    /\ UNCHANGED <<agent, csv_files, file_no, success_count, problematic_columns,
                   depth, df_columns, known_problematic_columns>>

ReadCsv ==
    /\ loader_pc = "read"
    /\ df_columns' = dataframe(file_info.key, problematic_columns)
    /\ loader_pc' = "to_sql"
    /\ UNCHANGED <<agent, csv_files, file_no, success_count, problematic_columns,
                   depth, known_problematic_columns, returns>>

Except(e) ==
    IF problem_column(e) # None
    THEN /\ problematic_columns' =
                IF Truthy(problematic_columns)
                THEN Some(Append(problematic_columns[1], problem_column(e)[1]))
                ELSE Some(<<problem_column(e)[1]>>)
         /\ known_problematic_columns' =
                IF Truthy(problematic_columns)
                       /\ file_info.filename \in DOMAIN known_problematic_columns
                THEN [known_problematic_columns EXCEPT
                          ![file_info.filename] = Append(@, problem_column(e)[1])]
                ELSE known_problematic_columns
         /\ depth' = depth + 1
         /\ loader_pc' = "infer"
         /\ UNCHANGED <<agent, csv_files, file_no, success_count, df_columns, returns>>
    ELSE /\ returns' = Append(returns, "False")
         /\ loader_pc' = "for"
         /\ UNCHANGED <<agent, csv_files, file_no, success_count, problematic_columns,
                        depth, df_columns, known_problematic_columns>>

ReadCsvRaises ==
    /\ loader_pc = "read"
    /\ \E e \in ReadErrors : Except(e)

ToSql ==
    /\ loader_pc = "to_sql"
    /\ returns' = Append(returns, "True")
    /\ success_count' = success_count + 1
    /\ loader_pc' = "for"
    /\ UNCHANGED <<agent, csv_files, file_no, problematic_columns, depth, df_columns,
                   known_problematic_columns>>

ToSqlRaises ==
    /\ loader_pc = "to_sql"
    /\ \E e \in InsertErrors(df_columns) : Except(e)

LoadNext ==
    \/ MainNextFile
    \/ MainSummary
    \/ InferTableStructure
    \/ InferTableStructureRaises
    \/ ReadCsv
    \/ ReadCsvRaises
    \/ ToSql
    \/ ToSqlRaises

LoadSpec == LoadInit /\ [][LoadNext]_vars

LoadFairSpec == LoadSpec /\ WF_vars(LoadNext)

(***************************************************************************)
(* Properties.                                                             *)
(***************************************************************************)
Attempts == 1..Len(history)

OracleCalls == Cardinality({i \in Attempts : history[i].oracle # "pending"})

Executions == Cardinality({i \in Attempts : history[i].exec # "none"})

Finished == pc \in {"returned", "raised"}

ResultText(i, rows) ==
    <<"Result: ">> \o rows \o <<" obtained from the query: ">> \o history[i].query[1]

ErrorText(i) ==
    <<"Error: ">> \o history[i].db_error[1] \o <<" occurred while running the query: ">>
        \o history[i].query[1]

\* C1: when the oracle returns a query model on every attempt and the engine
\* rejects the SQL on every attempt, the call makes exactly max_tries attempts
\* (as many oracle calls and executions) and returns the exhausted outcome.
C1_RetryTermination ==
    (/\ pc = "returned"
     /\ history # <<>>
     /\ \A i \in Attempts : history[i].oracle = "ok" /\ history[i].exec = "error")
        => /\ Len(history) = max_tries
           /\ OracleCalls = max_tries
           /\ Executions = max_tries
           /\ retval = Some(ExhaustedMessage)

\* C2: when the execution of attempt 1 fails and attempt 2 succeeds, the call
\* returns the result of attempt 2 and the prompt of attempt 2 carries the
\* error text and the query of attempt 1.
C2_RetrySuccessPath ==
    (/\ pc = "returned"
     /\ Len(history) >= 2
     /\ history[1].exec \in {"error", "raised"}
     /\ history[2].exec = "rows")
        => /\ retval # None
           /\ \E rows \in RowTexts : retval[1] = ResultText(2, rows)
           /\ history[2].prompt.feedback =
                  Some([previous_query |-> history[1].content[1],
                        error_message |-> history[1].db_error[1]])

\* C3: an engine failure on attempt k below the ceiling is followed by an
\* attempt k+1 whose prompt quotes the engine's error text, and the engine
\* error is never the value returned to the caller.
C3_EngineErrorFedBack ==
    pc = "returned" =>
        \A i \in Attempts :
            history[i].exec = "error" =>
                /\ retval # Some(ErrorText(i))
                /\ i < max_tries =>
                      /\ Len(history) > i
                      /\ history[i + 1].prompt.feedback # None
                      /\ history[i + 1].prompt.feedback[1].error_message
                             = history[i].db_error[1]

\* C4: oracle failures and execution failures share one attempt counter: the
\* counter and the number of oracle calls never exceed max_tries, whatever the
\* mix of failures, and the call always terminates.
C4_SharedCounter ==
    /\ [](/\ num_tries <= max_tries
          /\ OracleCalls <= max_tries
          /\ Len(history) = num_tries)
    /\ <>Finished

C4_Witness ==
    /\ pc = "returned"
    /\ num_tries = max_tries
    /\ \E i, j \in Attempts : history[i].oracle = "raised" /\ history[j].exec = "raised"

Exhausted ==
    /\ pc = "returned"
    /\ Len(history) = max_tries
    /\ \A i \in Attempts : history[i].oracle = "raised" \/ history[i].exec = "raised"

\* C5: when the ceiling is reached without a successful attempt, the call
\* returns the user-facing failure message, not None.
C5_ExhaustedMessage == Exhausted => retval = Some(ExhaustedMessage)

\* C6: the call only ever returns the rendering of the rows of a successful
\* execution together with its SQL text, or the terminal failure message.
C6_OnlyTwoOutcomes ==
    pc = "returned" =>
        \/ retval = Some(ExhaustedMessage)
        \/ \E i \in Attempts :
              /\ history[i].exec = "rows"
              /\ \E rows \in RowTexts : retval = Some(ResultText(i, rows))

\* C7: no failure of the agent construction, the oracle, the compilation or
\* the execution leaves get_answer_using_sql as an exception: every call ends
\* by returning.
C7_NothingRaised == [](pc # "raised") /\ <>(pc = "returned")

C7_Witness ==
    /\ pc = "returned"
    /\ retval = Some(GenericError)
    /\ \E i \in Attempts : history[i].oracle = "raised"
    /\ \E i \in Attempts : history[i].exec = "raised"

\* C8: when the oracle call of an attempt raises, the error is recorded in
\* error_message and the loop goes on to the next iteration; the attempt
\* compiles no SQL and does not call run_query.
C8_OracleFailureSkipsExecution ==
    \A i \in Attempts :
        history[i].oracle = "raised" =>
            /\ history[i].query = None
            /\ history[i].exec = "none"
            /\ (i = Len(history) /\ pc = "while") => error_message = history[i].oracle_error
            /\ (i = Len(history)) => pc \in {"while", "returned"}
            /\ (i < max_tries /\ pc = "returned") => Len(history) > i

C8_Witness ==
    /\ pc = "oracle"
    /\ Len(history) = 2
    /\ history[1].oracle = "raised"
    /\ error_message = history[1].oracle_error

TenantWhere(q, team) ==
    IF q.conditions # <<>>
    THEN <<" WHERE ">> \o
         Join(<<" AND ">>,
              [i \in 1..Len(q.conditions) |-> format_condition(q.conditions[i])])
         \o <<" AND organization_id = ">> \o team
    ELSE <<" WHERE organization_id = ">> \o team

\* C10: whenever a tenant identifier is supplied, every SQL text passed to
\* run_query carries organization_id = <tenant id> in its WHERE clause, alone
\* when there are no conditions and joined with AND after them otherwise.
C10_TenantScoping ==
    (pc = "exec" /\ team_id # None) =>
        Contains(query[1], TenantWhere(sql_query[1], team_id[1]))

(***************************************************************************)
(* Reading rendered SQL back: the value part of a rendered condition and   *)
(* the end of a quoted literal ('' inside a literal is an escaped quote).  *)
(***************************************************************************)
ValueStart(rendered, operator) ==
    CHOOSE i \in 2..Len(rendered) :
        /\ rendered[i - 1] = operator
        /\ rendered[i] = " "
        /\ \A j \in 2..(i - 1) : ~(rendered[j - 1] = operator /\ rendered[j] = " ")

RenderedValue(rendered, operator) ==
    SubSeq(rendered, ValueStart(rendered, operator) + 1, Len(rendered))

RECURSIVE LiteralEnd(_, _)
LiteralEnd(text, i) ==
    IF i > Len(text) THEN 0
    ELSE IF text[i] = "'"
         THEN IF i < Len(text) /\ text[i + 1] = "'" THEN LiteralEnd(text, i + 2) ELSE i
         ELSE LiteralEnd(text, i + 1)

OneQuotedLiteral(text) ==
    /\ Len(text) >= 2
    /\ text[1] = "'"
    /\ LiteralEnd(text, 2) = Len(text)

Compiling == pc = "exec" /\ IsSqlQuery(sql_query[1])

\* C11: every condition whose value is a string, also one holding a single
\* quote, is rendered with the whole value inside one quoted literal: the
\* literal opened at the start of the value closes at its very end.
C11_StringLiteralsEscaped ==
    Compiling =>
        \A i \in 1..Len(sql_query[1].conditions) :
            LET c == sql_query[1].conditions[i]
            IN  c.value.tag = "str" =>
                    /\ Contains(query[1], format_condition(c))
                    /\ OneQuotedLiteral(RenderedValue(format_condition(c), c.operator))

(***************************************************************************)
(* The columns a query model refers to, against semantic_model.            *)
(***************************************************************************)
ReferencedColumns(q) ==
    {q.columns[i] : i \in 1..Len(q.columns)}
        \cup {q.conditions[i].column : i \in 1..Len(q.conditions)}
        \cup {q.conditions[i].value.text :
                  i \in {j \in 1..Len(q.conditions) : q.conditions[j].value.tag = "dyn"}}
        \cup {q.group_by_columns[i] : i \in 1..Len(q.group_by_columns)}
        \cup {q.order_by_columns[i].column_name : i \in 1..Len(q.order_by_columns)}

InSchema(q) ==
    /\ q.table_name \in Tables
    /\ ReferencedColumns(q) \subseteq semantic_model[q.table_name]

Count(text, atom) == Cardinality({i \in 1..Len(text) : text[i] = atom})

Position(text, atom) ==
    IF Count(text, atom) = 0 THEN 0 ELSE CHOOSE i \in 1..Len(text) : text[i] = atom

Keywords == <<"SELECT ", " FROM ", " WHERE ", " GROUP BY ", " ORDER BY ", " LIMIT ">>

InClauseOrder(text) ==
    \A i, j \in 1..Len(Keywords) :
        (i < j /\ Count(text, Keywords[i]) > 0 /\ Count(text, Keywords[j]) > 0)
            => Position(text, Keywords[i]) < Position(text, Keywords[j])

Once(present) == IF present THEN 1 ELSE 0

\* C12: for a query model whose table and columns are all in the schema, the
\* SQL has exactly one SELECT and one LIMIT, a WHERE, GROUP BY and ORDER BY
\* exactly when the model has conditions, group-by and order-by columns, each
\* at most once, and the clauses come in that order.
C12_ClauseShape ==
    (Compiling /\ InSchema(sql_query[1])) =>
        LET q == sql_query[1]
            text == query[1]
        IN  /\ Count(text, "SELECT ") = 1
            /\ Position(text, "SELECT ") = 1
            /\ Count(text, " FROM ") = 1
            /\ Count(text, " WHERE ") = Once(q.conditions # <<>>)
            /\ Count(text, " GROUP BY ") = Once(q.group_by_columns # <<>>)
            /\ Count(text, " ORDER BY ") = Once(q.order_by_columns # <<>>)
            /\ Count(text, " LIMIT ") = 1
            /\ InClauseOrder(text)

C12_Witness ==
    /\ Compiling
    /\ InSchema(sql_query[1])
    /\ sql_query[1].conditions # <<>>
    /\ sql_query[1].group_by_columns # <<>>
    /\ sql_query[1].order_by_columns # <<>>
    /\ Count(query[1], " GROUP BY ") = 1

\* C13: every SQL text passed to run_query ends with LIMIT 10, whatever the
\* table, columns, conditions, grouping and ordering of the query model.
C13_LimitIsLast ==
    pc = "exec" =>
        /\ EndsWith(query[1], <<" LIMIT ", "1", "0">>)
        /\ Count(query[1], " LIMIT ") = 1

C13_Witness ==
    /\ Compiling
    /\ ~InSchema(sql_query[1])
    /\ sql_query[1].conditions # <<>>
    /\ sql_query[1].group_by_columns # <<>>
    /\ sql_query[1].order_by_columns # <<>>
    /\ EndsWith(query[1], <<" ", "DESC", " LIMIT ", "1", "0">>)

Quoted(identifier) ==
    IF Lower(identifier) = name THEN <<"\"">> \o identifier \o <<"\"">> ELSE identifier

\* C14: in the SELECT list, the WHERE conditions, GROUP BY and ORDER BY an
\* identifier is wrapped in double quotes if and only if it equals name
\* case-insensitively; every other identifier is emitted bare.
C14_IdentifierQuoting ==
    Compiling =>
        LET q == sql_query[1]
            text == query[1]
        IN  /\ Contains(text,
                   <<"SELECT ">>
                       \o (IF q.columns = <<>> THEN <<"*">>
                           ELSE Join(<<", ">>,
                                     [i \in 1..Len(q.columns) |-> Quoted(q.columns[i])]))
                       \o <<" FROM ">>)
            /\ \A i \in 1..Len(q.conditions) :
                   Contains(text,
                       <<IF i = 1 THEN " WHERE " ELSE " AND ">>
                           \o Quoted(q.conditions[i].column)
                           \o <<" ", q.conditions[i].operator, " ">>)
            /\ q.group_by_columns # <<>> =>
                   Contains(text,
                       <<" GROUP BY ">>
                           \o Join(<<", ">>,
                                   [i \in 1..Len(q.group_by_columns) |->
                                       Quoted(q.group_by_columns[i])]))
            /\ q.order_by_columns # <<>> =>
                   Contains(text,
                       <<" ORDER BY ">>
                           \o Join(<<", ">>,
                                   [i \in 1..Len(q.order_by_columns) |->
                                       Quoted(q.order_by_columns[i].column_name)
                                           \o <<" ", q.order_by_columns[i].sort_order>>]))

Digits == {"0", "1", "2", "3", "4", "5", "6", "7", "8", "9"}

IsDecimal(text) ==
    /\ text # <<>>
    /\ \A i \in 1..Len(text) : text[i] \in Digits \/ (i = 1 /\ text[i] = "-" /\ Len(text) > 1)

\* C15: a condition is rendered as column, operator symbol and value separated
\* by single spaces; a string value is wrapped in single quotes, an integer is
\* its decimal text and a column reference is the bare column name: status = 3,
\* pol = 'LAX', departure_date >= date_added.
C15_ConditionRendering ==
    Compiling =>
        LET q == sql_query[1]
            text == query[1]
        IN  /\ \A i \in 1..Len(q.conditions) :
                   LET c == q.conditions[i]
                       head == <<IF i = 1 THEN " WHERE " ELSE " AND ">>
                                   \o Quoted(c.column) \o <<" ", c.operator, " ">>
                       value == RenderedValue(format_condition(c), c.operator)
                   IN  /\ Contains(text, head \o value)
                       /\ c.value.tag = "str" => value = <<"'">> \o c.value.text \o <<"'">>
                       /\ c.value.tag = "dyn" => value = c.value.text
                       /\ c.value.tag = "int" => IsDecimal(value)
            /\ q = QStatus =>
                   Contains(text, <<" WHERE ", "status", " ", "=", " ", "3", " LIMIT ">>)
            /\ q = QLax =>
                   Contains(text, <<" WHERE ", "pol", " ", "=", " ", "'", "L", "A", "X", "'",
                                    " AND ", "client_id", " ", ">", " ", "1", "2", "0",
                                    " GROUP BY ">>)
            /\ q = QDates =>
                   Contains(text, <<" WHERE ", "departure_date", " ", ">=", " ", "date_added",
                                    " AND ">>)

C15_Witness ==
    /\ Compiling
    /\ \E i, j \in 1..Len(sql_query[1].conditions) :
          /\ sql_query[1].conditions[i].value.tag = "dyn"
          /\ sql_query[1].conditions[j].value.tag = "str"
    /\ Contains(query[1], <<"departure_date", " ", ">=", " ", "date_added">>)

WellFormed(q) ==
    /\ q.table_name \in Tables
    /\ q.table_name # ""
    /\ <<>> \notin ReferencedColumns(q)

\* C16: for a query model that names a table outside the schema, or an empty
\* table or column name, compilation fails: no SQL text is produced and
\* nothing is passed to run_query in that attempt.
C16_InvalidModelRejected ==
    \A i \in Attempts :
        (/\ history[i].content # None
         /\ IsSqlQuery(history[i].content[1])
         /\ ~WellFormed(history[i].content[1]))
            => /\ history[i].query = None
               /\ history[i].exec = "none"

Resolved(i) ==
    \/ history[i].oracle = "raised"
    \/ history[i].oracle = "ok" /\ history[i].exec # "none"

\* C17: the oracle call of an attempt starts only when every earlier attempt
\* is resolved (its oracle call raised, or it returned and its execution
\* returned or raised); each attempt makes at most one oracle call and at
\* most one execution, and only the latest attempt can be in progress.
C17_StrictlySequential ==
    /\ \A i \in Attempts : i < Len(history) => Resolved(i)
    /\ oracle_calls = OracleCalls
    /\ run_query_calls = Executions
    /\ run_query_calls <= oracle_calls
    /\ oracle_calls <= num_tries
    /\ pc = "oracle" => history[Last].oracle = "pending"
    /\ pc \in {"compile", "exec"} =>
          history[Last].oracle = "ok" /\ history[Last].exec = "none"

C17_Witness ==
    /\ pc = "exec"
    /\ Len(history) = max_tries
    /\ history[1].oracle = "raised"
    /\ history[2].exec = "raised"
    /\ oracle_calls = 3
    /\ run_query_calls = 1

Returned(i) == history[i].exec \in {"rows", "error"}

\* C20: once a run_query call has returned, with a Result or an Error string,
\* the loop ends and that string is what get_answer_using_sql returns: no
\* later attempt, oracle call or execution follows, so at most one run_query
\* call of an invocation ever returns.
C20_FirstReturnEndsLoop ==
    /\ Cardinality({i \in Attempts : Returned(i)}) <= 1
    /\ \A i \in Attempts :
          Returned(i) =>
              /\ i = Len(history)
              /\ pc \in {"while", "returned"}
              /\ oracle_calls = i
              /\ run_query_calls = Executions
              /\ result # None
              /\ history[i].exec = "error" => result[1] = ErrorText(i)
              /\ history[i].exec = "rows" =>
                    \E rows \in RowTexts : result[1] = ResultText(i, rows)
              /\ pc = "returned" => retval = result

C20_Witness ==
    /\ pc = "returned"
    /\ Len(history) = 2
    /\ history[1].exec = "raised"
    /\ history[2].exec = "error"
    /\ retval = Some(ErrorText(2))

(***************************************************************************)
(* What get_answer_using_sql returns when it runs alone and is given the   *)
(* responses recorded in a log, attempt by attempt.                        *)
(***************************************************************************)
Unfinished == Some(<<"a further attempt follows">>)

RECURSIVE SoloRun(_, _)
SoloRun(log, k) ==
    IF k > max_tries THEN None
    ELSE IF k > Len(log) THEN Unfinished
    ELSE IF log[k].oracle = "raised" THEN SoloRun(log, k + 1)
    ELSE IF log[k].oracle = "pending" THEN Unfinished
    ELSE IF ~IsSqlQuery(log[k].content[1])
         THEN OuterHandler(Exception("AttributeError", <<>>)).retval
    ELSE IF log[k].db = None THEN Unfinished
    ELSE LET r == run_query(BuildQuery(log[k].content[1], team_id), log[k].db[1])
         IN  IF r.raised THEN SoloRun(log, k + 1) ELSE Some(r.value)

SoloReturn(s) ==
    IF s.agent_error # None THEN OuterHandler(s.agent_error[1]).retval
    ELSE SoloRun(s.log, 1)

LastContent(log) ==
    LET answered == {k \in 1..Len(log) : log[k].oracle = "ok"}
    IN  IF answered = {} THEN None
        ELSE log[CHOOSE k \in answered : \A m \in answered : m <= k].content

OwnState(s) ==
    /\ s.num_tries = Len(s.log)
    /\ s.num_tries <= max_tries
    /\ s.pc \in {"while", "oracle"} => s.previous_query = LastContent(s.log)
    /\ (s.pc = "while" /\ s.log # <<>> /\ s.log[Len(s.log)].oracle = "raised") =>
          s.error_message = s.log[Len(s.log)].oracle_error
    /\ s.pc = "returned" => s.retval = SoloReturn(s)

HasFeedback(k) == history[k].prompt.feedback # None

AttemptError(k) ==
    IF history[k].oracle_error # None THEN history[k].oracle_error
    ELSE history[k].db_error

\* C21: when the prompt of an attempt carries corrective feedback, the
\* previous query and the error message quoted in it are both those of the
\* immediately preceding attempt.
C21_FeedbackFromPrecedingAttempt ==
    \A k \in Attempts :
        HasFeedback(k) =>
            /\ k > 1
            /\ history[k - 1].content = Some(history[k].prompt.feedback[1].previous_query)
            /\ AttemptError(k - 1) = Some(history[k].prompt.feedback[1].error_message)

(***************************************************************************)
(* import_csv_to_db and main.  Importing is while a call of                *)
(* import_csv_to_db for the file file_no is running, at any depth of its   *)
(* recursion; returns[n] is how the call for file n ended.                 *)
(***************************************************************************)
Importing == loader_pc \in {"infer", "read", "to_sql"}

Added == Len(problematic_columns[1]) - depth

RetriesDropNewColumns ==
    (Importing /\ depth > 0) =>
        /\ depth <= Len(Header(file_info.key))
        /\ \A i, j \in (Added + 1)..Len(problematic_columns[1]) :
               i # j => problematic_columns[1][i] # problematic_columns[1][j]
        /\ loader_pc = "to_sql" =>
               \A i \in (Added + 1)..Len(problematic_columns[1]) :
                   \A k \in 1..Len(df_columns) : df_columns[k] # problematic_columns[1][i]

\* C22: every call of import_csv_to_db ends, and ends by returning True or
\* False; its recursion is no deeper than the file has columns, each retry
\* dropping a column that was not dropped before.
C22_ImportTerminates ==
    /\ [](\A n \in 1..Len(returns) : returns[n] \in {"True", "False"})
    /\ []RetriesDropNewColumns
    /\ \A n \in 1..Len(CsvObjects) :
           (file_no = n /\ Importing) ~> (Len(returns) >= n)

\* C23: main processes every file of the list whatever happened to the files
\* before it, and when it ends success_count is the number of files whose
\* import returned True, which is at most len(csv_files).
C23_FilesIndependent ==
    loader_pc \in {"done", "raised"} =>
        /\ Len(returns) = Len(csv_files)
        /\ success_count = Cardinality({n \in 1..Len(returns) : returns[n] = "True"})
        /\ success_count <= Len(csv_files)

====
